---------------------------- MODULE Spec2Model ----------------------------
(***************************************************************************)
(* A model of ytdl_helper.py: the command-line wrapper around yt_dlp.      *)
(*                                                                         *)
(* The program is sequential: main parses the command line (parse_args),   *)
(* download_videos builds the options map (build_ytdl_opts) and runs the   *)
(* per-URL loop, and the library calls progress_hook with event            *)
(* dictionaries.  The library (yt_dlp) and the file system are the         *)
(* environment: the outcome of extract_info / prepare_filename for a URL   *)
(* and the existence of the cookies file are nondeterministic.             *)
(*                                                                         *)
(* Strings whose content matters (the --langs value) are sequences of      *)
(* one-character strings; None of an Optional[str] is the value None.      *)
(* "Logging" means a call of the logging module: a record appended to log. *)
(***************************************************************************)
EXTENDS Integers, Sequences, FiniteSets, TLC

VARIABLES
    argv,        \* the command line, as the fields argparse extracts from it
    fs,          \* TRUE iff CookiePath is an existing file right now
    pc,          \* position of the program
    args,        \* the namespace returned by parse_args
    ydl_opts,    \* the options map built by download_videos
    idx,         \* index in urls of the next URL of the for loop
    attempted,   \* the URLs extract_info was called with, in call order
    outcomes,    \* per attempted URL: the call that raised and what it raised
                 \* ("" and "" when both calls returned)
    failed,      \* the list failed of download_videos
    log,         \* the logging calls made so far
    exc,         \* the exception propagating out of download_videos, "" if none
    fsAtParse,   \* what os.path.isfile answered in parse_args
    fsAtBuild,   \* what os.path.isfile answered in download_videos
    d,           \* the event dictionary of the current progress_hook call
    hookCalled,  \* TRUE while a progress_hook call is being looked at
    written,     \* what that call wrote to stdout
    logged,      \* the logging calls of that call
    hookRaised   \* the exception that call raised, "" if none

vars == <<argv, fs, pc, args, ydl_opts, idx, attempted, outcomes, failed, log,
          exc, fsAtParse, fsAtBuild, d, hookCalled, written, logged, hookRaised>>

mainVars == <<argv, fs, pc, args, ydl_opts, idx, attempted, outcomes, failed,
              log, exc, fsAtParse, fsAtBuild>>

hookVars == <<d, hookCalled, written, logged, hookRaised>>

(***************************************************************************)
(* Bounds of the model.                                                    *)
(***************************************************************************)
MaxUrls == 3

MaxLangLen == 5

(***************************************************************************)
(* Values.                                                                 *)
(***************************************************************************)
None == "<None>"

\* Python truthiness of an Optional[str]
TruthyStr(s) == s # None /\ s # ""

Urls == {"u1", "u2"}

CookiePath == "cookies.txt"

\* the characters of a --langs value: letters, the comma, two kinds of whitespace
Chars == {"e", "n", ",", " ", "\t"}

Whitespace == {" ", "\t"}

SeqsUpTo(S, n) == UNION {[1..k -> S] : k \in 0..n}

\* the --langs default
DefaultLangs ==
    <<"z", "h", "-", "H", "a", "n", "s", ",", "z", "h", ",",
      "z", "h", "-", "C", "N", ",", "e", "n">>


(***************************************************************************)
(* str.split(',') and str.strip() (line 319).                              *)
(***************************************************************************)
\* index of the first comma of s, 0 when s has none
RECURSIVE FirstComma(_, _)
FirstComma(s, k) ==
    IF k > Len(s) THEN 0
    ELSE IF s[k] = "," THEN k
    ELSE FirstComma(s, k + 1)

\* s.split(','): the pieces between the commas, empty pieces included
RECURSIVE split(_)
split(s) ==
    LET k == FirstComma(s, 1)
    IN  IF k = 0 THEN <<s>>
        ELSE <<SubSeq(s, 1, k - 1)>> \o split(SubSeq(s, k + 1, Len(s)))

RECURSIVE lstrip(_)
lstrip(s) ==
    IF s # <<>> /\ Head(s) \in Whitespace THEN lstrip(Tail(s)) ELSE s

RECURSIVE rstrip(_)
rstrip(s) ==
    IF s # <<>> /\ s[Len(s)] \in Whitespace
    THEN rstrip(SubSeq(s, 1, Len(s) - 1))
    ELSE s

\* a strip that forgets the trailing whitespace
strip_leading_only(s) == lstrip(s)

\* s.strip(): leading and trailing whitespace removed
strip(s) == rstrip(lstrip(s))

\* [s.strip() for s in pieces if s.strip()]
RECURSIVE StripNonBlank(_)
StripNonBlank(pieces) ==
    IF pieces = <<>> THEN <<>>
    ELSE LET t == strip(Head(pieces))
         IN  (IF t # <<>> THEN <<t>> ELSE <<>>) \o StripNonBlank(Tail(pieces))

\* args.langs = [s.strip() for s in args.langs.split(',') if s.strip()]
ParseLangs(s) == StripNonBlank(split(s))

(***************************************************************************)
(* build_ytdl_opts (lines 72-165): the options map, a function from the    *)
(* keys present to their values.                                           *)
(***************************************************************************)
PostProcessors ==
    << [key |-> "FFmpegVideoRemuxer", preferedformat |-> "mp4"],
       [key |-> "FFmpegThumbnailsConvertor", format |-> "jpg"],
       [key |-> "EmbedThumbnail", already_have_thumbnail |-> TRUE],
       [key |-> "FFmpegMetadata"] >>

\* the empty dict
EmptyDict == [k \in {} |-> TRUE]

\* {key: value} if cond else {}
Opt(cond, key, value) == IF cond THEN key :> value ELSE EmptyDict

\* the dict literal of lines 119-145 without its conditional 'paths' entry
BaseOptions(langs, quiet) ==
    [ outtmpl |-> "%(uploader)s - %(title)s.%(ext)s",
      windowsfilenames |-> TRUE,
      format |-> "bv*+ba/b",
      merge_output_format |-> "mp4",
      writesubtitles |-> TRUE,
      embedsubtitles |-> TRUE,
      subtitleslangs |-> langs,
      subtitlesformat |-> "srt/best",
      writethumbnail |-> TRUE,
      embedthumbnail |-> TRUE,
      retries |-> 10,
      fragment_retries |-> 10,
      continuedl |-> TRUE,
      concurrent_fragment_downloads |-> 5,
      quiet |-> quiet,
      no_warnings |-> FALSE,
      ignoreerrors |-> FALSE,
      progress_hooks |-> <<"progress_hook">>,
      postprocessors |-> PostProcessors ]

\* build_ytdl_opts with the clean_infojson test outside the write_infojson one
build_ytdl_opts_unnested(output_dir, cookies_file, langs, ffmpeg_location, quiet, auto_sub, no_playlist, playlist_items, write_infojson, clean_infojson) ==
    BaseOptions(langs, quiet)
    @@ Opt(TruthyStr(output_dir), "paths", [home |-> output_dir])
    @@ Opt(TruthyStr(cookies_file), "cookiefile", cookies_file)
    @@ Opt(TruthyStr(ffmpeg_location), "ffmpeg_location", ffmpeg_location)
    @@ Opt(auto_sub, "writeautomaticsub", TRUE)
    @@ Opt(no_playlist, "noplaylist", TRUE)
    @@ Opt(TruthyStr(playlist_items), "playlist_items", playlist_items)
    @@ Opt(write_infojson, "writeinfojson", TRUE)
    @@ Opt(clean_infojson, "clean_infojson", TRUE)

build_ytdl_opts(output_dir, cookies_file, langs, ffmpeg_location, quiet, auto_sub, no_playlist, playlist_items, write_infojson, clean_infojson) ==
    BaseOptions(langs, quiet)
    @@ Opt(TruthyStr(output_dir), "paths", [home |-> output_dir])
    @@ Opt(TruthyStr(cookies_file), "cookiefile", cookies_file)
    @@ Opt(TruthyStr(ffmpeg_location), "ffmpeg_location", ffmpeg_location)
    @@ Opt(auto_sub, "writeautomaticsub", TRUE)
    @@ Opt(no_playlist, "noplaylist", TRUE)
    @@ Opt(TruthyStr(playlist_items), "playlist_items", playlist_items)
    @@ Opt(write_infojson, "writeinfojson", TRUE)
    @@ Opt(write_infojson /\ clean_infojson, "clean_infojson", TRUE)

(***************************************************************************)
(* The command line.  argparse (lines 265-317) yields the positional urls  *)
(* (nargs='+': at least one) and the option values as given.               *)
(***************************************************************************)
DefaultArgv ==
    [ urls |-> <<"u1">>, output_dir |-> None, cookies |-> None,
      langs |-> DefaultLangs, ffmpeg |-> None, quiet |-> FALSE,
      auto_sub |-> FALSE, no_playlist |-> FALSE, playlist_items |-> None,
      write_infojson |-> FALSE, clean_infojson |-> FALSE ]

\* the values of an optional path argument: not given, empty, a path
CookiesIn == {None, "", CookiePath}

UrlLists == SeqsUpTo(Urls, MaxUrls) \ {<<>>}

\* command lines that vary the URLs and the cookies option
ArgvUrls ==
    { [DefaultArgv EXCEPT !.urls = u, !.cookies = c] :
        u \in UrlLists, c \in CookiesIn }

\* command lines that vary the --langs value
ArgvLangs ==
    { [DefaultArgv EXCEPT !.langs = l] : l \in SeqsUpTo(Chars, MaxLangLen) }

\* command lines that vary every option build_ytdl_opts reads
ArgvOptions ==
    { [DefaultArgv EXCEPT !.output_dir = o, !.cookies = c, !.ffmpeg = f,
                          !.quiet = q, !.auto_sub = a, !.no_playlist = n,
                          !.playlist_items = p, !.write_infojson = w,
                          !.clean_infojson = ci] :
        o \in {None, "", "out"}, c \in CookiesIn, f \in {None, "", "/opt/ffmpeg"},
        q \in BOOLEAN, a \in BOOLEAN, n \in BOOLEAN,
        p \in {None, "", "1-5"}, w \in BOOLEAN, ci \in BOOLEAN }

Argvs == ArgvUrls \cup ArgvLangs \cup ArgvOptions

\* the namespace before parse_args has returned
NoArgs == [DefaultArgv EXCEPT !.urls = <<>>, !.langs = <<>>]

\* os.path.isfile(path): CookiePath is the only path that may be a file
isfile(path, exists) == path = CookiePath /\ exists

(***************************************************************************)
(* The exceptions the library may raise while a URL is processed.          *)
(***************************************************************************)
\* subclasses of Exception
Exceptions == {"DownloadError"}

\* BaseException subclasses that are not Exceptions
Interrupts == {"KeyboardInterrupt", "SystemExit"}

\* the calls of the loop body that may raise
Calls == {"extract_info", "prepare_filename"}

\* what prepare_filename returns for a downloaded URL
FileOf(url) == <<"file", url>>

Init ==
    /\ argv \in Argvs
    /\ fs \in BOOLEAN
    /\ pc = "main"
    /\ args = NoArgs
    /\ ydl_opts = EmptyDict
    /\ idx = 0
    /\ attempted = <<>>
    /\ outcomes = <<>>
    /\ failed = <<>>
    /\ log = <<>>
    /\ exc = ""
    /\ fsAtParse = FALSE
    /\ fsAtBuild = FALSE
    /\ d = EmptyDict
    /\ hookCalled = FALSE
    /\ written = <<>>
    /\ logged = <<>>
    /\ hookRaised = ""

(***************************************************************************)
(* The file system: the cookies file may be created or removed by others   *)
(* at any time.  The program reads the file system for the last time when  *)
(* download_videos builds the options, so later changes are left out.      *)
(***************************************************************************)
file_changes ==
    /\ pc \in {"main", "parsed"}
    /\ fs' = ~fs
    /\ UNCHANGED <<argv, pc, args, ydl_opts, idx, attempted, outcomes, failed,
                   log, exc, fsAtParse, fsAtBuild>>
    /\ UNCHANGED hookVars

(***************************************************************************)
(* parse_args (lines 248-328), and main up to the call of download_videos  *)
(* (lines 349-354).                                                        *)
(***************************************************************************)
\* line 321: the cookies value is given and names no existing file
CookiesRejected(cookies, exists) ==
    TruthyStr(cookies) /\ ~isfile(cookies, exists)

parse_args ==
    /\ pc = "main"
    /\ args' = [argv EXCEPT
                  !.langs = ParseLangs(argv.langs),
                  !.cookies = IF CookiesRejected(argv.cookies, fs)
                              THEN None ELSE argv.cookies]
    /\ log' = IF CookiesRejected(argv.cookies, fs)
              THEN Append(log, [level |-> "WARNING", msg |-> "cookies_ignored",
                                path |-> argv.cookies])
              ELSE log
    /\ fsAtParse' = fs
    /\ pc' = "parsed"
    /\ UNCHANGED <<argv, fs, ydl_opts, idx, attempted, outcomes, failed, exc,
                   fsAtBuild>>
    /\ UNCHANGED hookVars

(***************************************************************************)
(* download_videos (lines 168-245).                                        *)
(***************************************************************************)
\* the cookies path passed on without the second isfile check
CookiesArgument_unchecked(cookies, exists) == cookies

\* lines 196-198: the cookies_file argument of build_ytdl_opts
CookiesArgument(cookies, exists) ==
    IF TruthyStr(cookies) /\ isfile(cookies, exists) THEN cookies ELSE None

\* lines 194-229: build the options, log them at DEBUG, start with failed = []
download_videos_begin ==
    /\ pc = "parsed"
    /\ ydl_opts' = build_ytdl_opts(args.output_dir,
                                   CookiesArgument(args.cookies, fs),
                                   args.langs, args.ffmpeg, args.quiet,
                                   args.auto_sub, args.no_playlist,
                                   args.playlist_items, args.write_infojson,
                                   args.clean_infojson)
    /\ log' = Append(log, [level |-> "DEBUG", msg |-> "ydl_opts"])
    /\ fsAtBuild' = fs
    /\ failed' = <<>>
    /\ idx' = 1
    /\ pc' = "loop"
    /\ UNCHANGED <<argv, fs, args, attempted, outcomes, exc, fsAtParse>>
    /\ UNCHANGED hookVars

\* an except clause that also catches KeyboardInterrupt and SystemExit
Caught_BaseException(e) == e \in Exceptions \cup Interrupts

\* a loop body without the try/except
Caught_nothing(e) == FALSE

\* line 236: except Exception
Caught(e) == e \in Exceptions

\* lines 232-235: both calls return, the file path is logged
url_downloaded ==
    /\ pc = "loop"
    /\ idx <= Len(args.urls)
    /\ LET url == args.urls[idx]
       IN  /\ attempted' = Append(attempted, url)
           /\ outcomes' = Append(outcomes, [call |-> "", e |-> ""])
           /\ log' = Append(log, [level |-> "INFO", msg |-> "Downloaded",
                                  filepath |-> FileOf(url)])
    /\ idx' = idx + 1
    /\ UNCHANGED <<argv, fs, pc, args, ydl_opts, failed, exc, fsAtParse, fsAtBuild>>
    /\ UNCHANGED hookVars

\* lines 232-238: call c raises e; the except clause handles it or lets it go
url_raises(c, e) ==
    /\ pc = "loop"
    /\ idx <= Len(args.urls)
    /\ LET url == args.urls[idx]
       IN  /\ attempted' = Append(attempted, url)
           /\ outcomes' = Append(outcomes, [call |-> c, e |-> e])
           /\ IF Caught(e)
              THEN /\ log' = Append(log, [level |-> "ERROR",
                                          msg |-> "Download failed",
                                          e |-> e, url |-> url])
                   /\ failed' = Append(failed, url)
                   /\ idx' = idx + 1
                   /\ UNCHANGED <<pc, exc>>
              ELSE /\ exc' = e
                   /\ pc' = "propagating"
                   /\ UNCHANGED <<log, failed, idx>>
    /\ UNCHANGED <<argv, fs, args, ydl_opts, fsAtParse, fsAtBuild>>
    /\ UNCHANGED hookVars

\* the summary without the test of line 240
FailureSummary_unconditional(f) ==
    << [level |-> "WARNING", msg |-> "failed_summary",
        count |-> Len(f), urls |-> f] >>

\* lines 240-245: the warning that lists the failed URLs
FailureSummary(f) ==
    IF f # <<>>
    THEN << [level |-> "WARNING", msg |-> "failed_summary",
             count |-> Len(f), urls |-> f] >>
    ELSE <<>>

\* the loop is over: leave the with block, log the summary, return to main
download_videos_end ==
    /\ pc = "loop"
    /\ idx > Len(args.urls)
    /\ log' = log \o FailureSummary(failed)
    /\ pc' = "returned"
    /\ UNCHANGED <<argv, fs, args, ydl_opts, idx, attempted, outcomes, failed,
                   exc, fsAtParse, fsAtBuild>>
    /\ UNCHANGED hookVars

(***************************************************************************)
(* The __main__ block (lines 359-363).                                     *)
(***************************************************************************)
\* a top-level handler for every BaseException
HandledAtTop_any(e) == TRUE

\* line 362: except KeyboardInterrupt
HandledAtTop(e) == e = "KeyboardInterrupt"

\* main() returned
main_returns ==
    /\ pc = "returned"
    /\ pc' = "exit"
    /\ UNCHANGED <<argv, fs, args, ydl_opts, idx, attempted, outcomes, failed,
                   log, exc, fsAtParse, fsAtBuild>>
    /\ UNCHANGED hookVars

\* main() raised: the handler logs a KeyboardInterrupt, anything else is uncaught
top_level_handler ==
    /\ pc = "propagating"
    /\ IF HandledAtTop(exc)
       THEN /\ log' = Append(log, [level |-> "INFO", msg |-> "Interrupted"])
            /\ pc' = "exit"
       ELSE /\ pc' = "uncaught"
            /\ UNCHANGED log
    /\ UNCHANGED <<argv, fs, args, ydl_opts, idx, attempted, outcomes, failed,
                   exc, fsAtParse, fsAtBuild>>
    /\ UNCHANGED hookVars

Next ==
    \/ file_changes
    \/ parse_args
    \/ download_videos_begin
    \/ url_downloaded
    \/ \E c \in Calls, e \in Exceptions \cup Interrupts : url_raises(c, e)
    \/ download_videos_end
    \/ main_returns
    \/ top_level_handler

Spec == Init /\ [][Next]_vars

(***************************************************************************)
(* progress_hook (lines 35-69).                                            *)
(*                                                                         *)
(* An entry of the event dictionary is [kind, v]: kind "absent" when the   *)
(* key is missing, "none" when its value is None, "val" when it is v.      *)
(***************************************************************************)
NumAbsent == [kind |-> "absent", v |-> 0]

NumNone == [kind |-> "none", v |-> 0]

Num(n) == [kind |-> "val", v |-> n]

StrAbsent == [kind |-> "absent", v |-> ""]

StrNone == [kind |-> "none", v |-> ""]

Str(x) == [kind |-> "val", v |-> x]

\* info_dict: missing, None, or a dict whose '_filename' entry is f
InfoAbsent == [kind |-> "absent", v |-> StrAbsent]

InfoNone == [kind |-> "none", v |-> StrAbsent]

Info(f) == [kind |-> "val", v |-> f]

\* d.get(key): None when the key is missing
Get(x) == IF x.kind = "absent" THEN [x EXCEPT !.kind = "none"] ELSE x

\* d.get(key, default)
GetDefault(x, default) == IF x.kind = "absent" THEN default ELSE x

\* truth value of a number or None, of a string or None
TruthyNum(x) == x.kind = "val" /\ x.v # 0

TruthyS(x) == x.kind = "val" /\ x.v # ""

\* a or b
OrNum(a, b) == IF TruthyNum(a) THEN a ELSE b

\* the events the library may pass
Events ==
    [ status : {StrAbsent, Str("downloading"), Str("finished"),
                Str("post_process"), Str("error")},
      total_bytes : {NumAbsent, NumNone, Num(0), Num(200)},
      total_bytes_estimate : {NumAbsent, NumNone, Num(0), Num(400)},
      downloaded_bytes : {NumAbsent, NumNone, Num(50)},
      speed : {NumAbsent, NumNone, Num(10)},
      eta : {NumAbsent, NumNone, Num(5)},
      filename : {StrAbsent, StrNone, Str(""), Str("a.mp4")},
      info_dict : {InfoAbsent, InfoNone, Info(StrAbsent), Info(Str("b.mp4"))} ]

\* what a call does: lines written to stdout, logging calls, exception raised
Effect(w, l, r) == [written |-> w, logged |-> l, raised |-> r]

\* line 56: total = d.get('total_bytes') or d.get('total_bytes_estimate')
Total(e) == OrNum(Get(e.total_bytes), Get(e.total_bytes_estimate))

\* the test "total is not None" in place of the truth test
TotalKnown_not_None(total) == total.kind = "val"

\* line 58: if total
TotalKnown(total) == TruthyNum(total)

\* lines 59-65: the percentage (downloaded / total * 100, kept as the exact
\* fraction pct_num / pct_den) and the line written; None / total and
\* format(None, '.0f') raise TypeError, a zero total ZeroDivisionError
ProgressLine(e, total) ==
    LET downloaded == GetDefault(e.downloaded_bytes, Num(0))
        speed == GetDefault(e.speed, Num(0))
        eta == GetDefault(e.eta, Num(0))
    IN  IF downloaded.kind = "none" \/ total.kind = "none"
        THEN Effect(<<>>, <<>>, "TypeError")
        ELSE IF total.v = 0
        THEN Effect(<<>>, <<>>, "ZeroDivisionError")
        ELSE IF speed.kind = "none"
        THEN Effect(<<>>, <<>>, "TypeError")
        ELSE Effect(<< [pct_num |-> downloaded.v * 100, pct_den |-> total.v,
                        speed |-> speed.v, eta |-> eta] >>, <<>>, "")

\* lines 67-69: filename = d.get('filename') or
\* d.get('info_dict', {}).get('_filename'); None.get raises AttributeError
Processed(e) ==
    LET first == Get(e.filename)
        info == GetDefault(e.info_dict, Info(StrAbsent))
    IN  IF TruthyS(first)
        THEN Effect(<<>>, << [level |-> "INFO", msg |-> "Processed",
                              filename |-> first.v] >>, "")
        ELSE IF info.kind = "none"
        THEN Effect(<<>>, <<>>, "AttributeError")
        ELSE IF TruthyS(Get(info.v))
        THEN Effect(<<>>, << [level |-> "INFO", msg |-> "Processed",
                              filename |-> info.v.v] >>, "")
        ELSE Effect(<<>>, <<>>, "")

\* the second branch taken for status 'error' too
ProcessedStatuses_with_error == {"finished", "post_process", "error"}

\* the statuses of line 66
ProcessedStatuses == {"finished", "post_process"}

HookEffect(e) ==
    LET status == Get(e.status)
    IN  IF status.kind = "val" /\ status.v = "downloading"
        THEN IF TotalKnown(Total(e))
             THEN ProgressLine(e, Total(e))
             ELSE Effect(<<>>, <<>>, "")
        ELSE IF status.kind = "val" /\ status.v \in ProcessedStatuses
        THEN Processed(e)
        ELSE Effect(<<>>, <<>>, "")

\* the library calls progress_hook(e); the state shows the call's effects
progress_hook(e) ==
    /\ d' = e
    /\ hookCalled' = TRUE
    /\ written' = HookEffect(e).written
    /\ logged' = HookEffect(e).logged
    /\ hookRaised' = HookEffect(e).raised
    /\ UNCHANGED mainVars

\* control is back in the library, which may call the hook again
hook_returns ==
    /\ hookCalled
    /\ d' = EmptyDict
    /\ hookCalled' = FALSE
    /\ written' = <<>>
    /\ logged' = <<>>
    /\ hookRaised' = ""
    /\ UNCHANGED mainVars

InitHook ==
    /\ Init
    /\ argv = DefaultArgv
    /\ fs = FALSE

NextHook ==
    \/ ~hookCalled /\ \E e \in Events : progress_hook(e)
    \/ hook_returns

SpecHook == InitHook /\ [][NextHook]_vars

(***************************************************************************)
(* Vocabulary of the properties.                                           *)
(***************************************************************************)
IsPrefix(a, b) == Len(a) <= Len(b) /\ a = SubSeq(b, 1, Len(a))

\* the logging calls with message m
LogOf(m) == LET Test(r) == r.msg = m IN SelectSeq(log, Test)

\* the logging calls of the loop body, one per URL whose processing ended
LoopLog ==
    LET Test(r) == r.msg \in {"Downloaded", "Download failed"}
    IN  SelectSeq(log, Test)

\* the attempts during which the library raised an Exception
ExceptionAttempts == {k \in 1..Len(outcomes) : outcomes[k].e \in Exceptions}

\* the attempts cut short by a BaseException that is no Exception
InterruptedAttempts == {k \in 1..Len(outcomes) : outcomes[k].e \in Interrupts}

\* the subsequence of urls, duplicates kept, at the positions in K
RECURSIVE UrlsAt(_, _, _)
UrlsAt(urls, K, n) ==
    IF n = 0 THEN <<>>
    ELSE UrlsAt(urls, K, n - 1) \o (IF n \in K THEN <<urls[n]>> ELSE <<>>)

\* download_videos has been left, by return or by an exception
LoopLeft == pc \in {"returned", "propagating", "exit", "uncaught"}

(***************************************************************************)
(* C1: extract_info is called once per element of urls, in list order, and *)
(* an Exception raised for one URL does not stop the later ones: whenever  *)
(* download_videos has been left and the library raised nothing but        *)
(* Exceptions, the sequence of attempted URLs is urls; before that it is a *)
(* prefix of urls.                                                         *)
(***************************************************************************)
C1_AttemptsFollowUrls ==
    /\ IsPrefix(attempted, argv.urls)
    /\ Len(outcomes) = Len(attempted)
    /\ (LoopLeft /\ InterruptedAttempts = {}) => attempted = argv.urls

\* three URLs, the first two raise, the third is still attempted
C1_Witness ==
    /\ pc = "returned"
    /\ Len(argv.urls) = 3
    /\ attempted = argv.urls
    /\ ExceptionAttempts = {1, 2}

(***************************************************************************)
(* C2: failed is the subsequence of urls (same order, duplicates kept) of  *)
(* the attempts that raised an Exception; every URL whose processing ran   *)
(* to its end has exactly one entry, a 'Downloaded' log record when both   *)
(* calls returned and a 'Download failed' record with an entry of failed   *)
(* when one raised; when the loop has ended every URL has one; and failed  *)
(* only grows.                                                             *)
(***************************************************************************)
C2_FailedState ==
    /\ failed = UrlsAt(argv.urls, ExceptionAttempts, Len(outcomes))
    /\ Len(LoopLog) = Len(outcomes) - Cardinality(InterruptedAttempts)
    /\ \A k \in 1..Len(LoopLog) :
          IF outcomes[k].e = ""
          THEN /\ LoopLog[k].msg = "Downloaded"
               /\ LoopLog[k].filepath = FileOf(argv.urls[k])
          ELSE /\ LoopLog[k].msg = "Download failed"
               /\ LoopLog[k].url = argv.urls[k]
               /\ k \in ExceptionAttempts
    /\ Len(LogOf("Downloaded")) + Len(failed) = Len(LoopLog)
    /\ (pc \in {"returned", "exit"} /\ exc = "") => Len(LoopLog) = Len(argv.urls)

\* C2: the state property above holds in every reachable state, and no step
\* removes or changes an entry of failed
C2_FailedIsTheRaisingUrls ==
    [](C2_FailedState) /\ [][IsPrefix(failed, failed')]_vars

\* a URL given twice fails twice, with a success in between
C2_Witness ==
    /\ pc = "returned"
    /\ argv.urls = <<"u1", "u2", "u1">>
    /\ failed = <<"u1", "u1">>
    /\ outcomes[1].call = "extract_info"
    /\ outcomes[3].call = "prepare_filename"

(***************************************************************************)
(* C6: the failure summary is logged at most once, never before every URL  *)
(* of urls has been attempted, and its count is the number of entries of   *)
(* failed; once download_videos has returned it has been logged exactly    *)
(* once if some attempt raised an Exception and not at all otherwise.      *)
(***************************************************************************)
C6_SummaryOnceIffFailed ==
    LET summaries == LogOf("failed_summary")
    IN  /\ Len(summaries) <= 1
        /\ summaries # <<>> =>
              /\ attempted = argv.urls
              /\ pc \in {"returned", "exit"}
              /\ summaries[1].count = Len(failed)
              /\ summaries[1].count = Cardinality(ExceptionAttempts)
              /\ summaries[1].urls = failed
              /\ log[Len(log)].msg = "failed_summary"
        /\ pc \in {"returned", "exit"} /\ exc = "" =>
              (Len(summaries) = 1 <=> ExceptionAttempts # {})

\* two of three URLs failed and the summary reports 2
C6_Witness ==
    /\ pc = "returned"
    /\ Len(argv.urls) = 3
    /\ Len(failed) = 2
    /\ LogOf("failed_summary") # <<>>
    /\ LogOf("failed_summary")[1].count = 2

(***************************************************************************)
(* C9 as stated: when the processing of a URL is cut short by a            *)
(* KeyboardInterrupt or another BaseException that is no Exception, that   *)
(* URL is not added to failed, no later URL is attempted, no summary is    *)
(* logged, and the program ends in the top-level handler, which logs the   *)
(* interruption.                                                           *)
(***************************************************************************)
C9_InterruptStopsTheLoop ==
    InterruptedAttempts # {} =>
        /\ InterruptedAttempts = {Len(outcomes)}
        /\ exc = outcomes[Len(outcomes)].e
        /\ failed = UrlsAt(argv.urls, ExceptionAttempts, Len(outcomes) - 1)
        /\ Len(LoopLog) = Len(outcomes) - 1
        /\ Len(attempted) = Len(outcomes)
        /\ LogOf("failed_summary") = <<>>
        /\ pc \in {"propagating", "exit", "uncaught"}

\* C9 as stated: the effects above, and once the exception has left main the
\* program has ended in the handler with the interruption logged last
C9_AsStated ==
    /\ C9_InterruptStopsTheLoop
    /\ InterruptedAttempts # {} /\ pc # "propagating" =>
          /\ pc = "exit"
          /\ log[Len(log)].msg = "Interrupted"

(***************************************************************************)
(* C9 amended: the first three effects hold for every such exception and   *)
(* it leaves download_videos and main; only a KeyboardInterrupt is caught  *)
(* by the top-level handler, which logs the interruption once and ends the *)
(* program; any other one is not caught there and nothing more is logged.  *)
(***************************************************************************)
\* C9 amended: the effects above, with the log entry for KeyboardInterrupt only
C9_OnlyKeyboardInterruptIsLogged ==
    /\ C9_InterruptStopsTheLoop
    /\ InterruptedAttempts = {} => exc = "" /\ LogOf("Interrupted") = <<>>
    /\ InterruptedAttempts # {} =>
          /\ pc = "exit" =>
                /\ exc = "KeyboardInterrupt"
                /\ Len(LogOf("Interrupted")) = 1
                /\ log[Len(log)].msg = "Interrupted"
          /\ pc = "uncaught" =>
                /\ exc # "KeyboardInterrupt"
                /\ LogOf("Interrupted") = <<>>
          /\ pc = "propagating" => LogOf("Interrupted") = <<>>

\* the second of three URLs is interrupted after the first one failed
C9_Witness ==
    /\ pc = "exit"
    /\ exc = "KeyboardInterrupt"
    /\ Len(argv.urls) = 3
    /\ attempted = SubSeq(argv.urls, 1, 2)
    /\ failed = <<argv.urls[1]>>
    /\ log[Len(log)].msg = "Interrupted"

(***************************************************************************)
(* C10: once download_videos has built the options, 'cookiefile' is in the *)
(* map only if args.cookies was an existing file at that moment, and then  *)
(* it is args.cookies; a path that is no file then (removed since          *)
(* parse_args) is left out without any warning from download_videos, and   *)
(* the loop runs all the same.                                             *)
(***************************************************************************)
C10_CookiefileRechecked ==
    pc \notin {"main", "parsed"} =>
        /\ "cookiefile" \in DOMAIN ydl_opts =>
              /\ isfile(args.cookies, fsAtBuild)
              /\ ydl_opts["cookiefile"] = args.cookies
        /\ isfile(args.cookies, fsAtBuild) => "cookiefile" \in DOMAIN ydl_opts
        /\ Len(LogOf("cookies_ignored")) =
              (IF argv.cookies \notin {None, ""} /\ ~isfile(argv.cookies, fsAtParse)
               THEN 1 ELSE 0)
        /\ (LoopLeft /\ InterruptedAttempts = {}) => attempted = argv.urls

\* the file passed the check of parse_args and was removed before the build
C10_Witness ==
    /\ pc = "returned"
    /\ args.cookies = CookiePath
    /\ fsAtParse
    /\ ~fsAtBuild
    /\ "cookiefile" \notin DOMAIN ydl_opts
    /\ LogOf("cookies_ignored") = <<>>
    /\ attempted = argv.urls

(***************************************************************************)
(* C7: in the map build_ytdl_opts returns each optional key is present iff *)
(* its argument is truthy, 'clean_infojson' iff write_infojson and         *)
(* clean_infojson both are, 'quiet' and 'subtitleslangs' are the           *)
(* arguments, and every other key has the value it has for any other       *)
(* arguments.                                                              *)
(***************************************************************************)
FixedKeys ==
    {"outtmpl", "windowsfilenames", "format", "merge_output_format",
     "writesubtitles", "embedsubtitles", "subtitlesformat", "writethumbnail",
     "embedthumbnail", "retries", "fragment_retries", "continuedl",
     "concurrent_fragment_downloads", "no_warnings", "ignoreerrors",
     "progress_hooks", "postprocessors"}

OptionalKeys ==
    {"paths", "cookiefile", "ffmpeg_location", "writeautomaticsub",
     "noplaylist", "playlist_items", "writeinfojson", "clean_infojson"}

\* the map for arguments that are all None, False or empty
ReferenceOptions ==
    build_ytdl_opts(None, None, <<>>, None, FALSE, FALSE, FALSE, None, FALSE, FALSE)

C7_OptionalKeysFollowArguments ==
    pc \notin {"main", "parsed"} =>
        LET given(x) == x \notin {None, ""}
            cookies_file == IF given(args.cookies) /\ isfile(args.cookies, fsAtBuild)
                            THEN args.cookies ELSE None
            has(k) == k \in DOMAIN ydl_opts
        IN  /\ has("paths") <=> given(args.output_dir)
            /\ has("cookiefile") <=> given(cookies_file)
            /\ has("ffmpeg_location") <=> given(args.ffmpeg)
            /\ has("writeautomaticsub") <=> args.auto_sub
            /\ has("noplaylist") <=> args.no_playlist
            /\ has("playlist_items") <=> given(args.playlist_items)
            /\ has("writeinfojson") <=> args.write_infojson
            /\ has("clean_infojson") <=> (args.write_infojson /\ args.clean_infojson)
            /\ has("clean_infojson") => has("writeinfojson")
            /\ DOMAIN ydl_opts \subseteq
                  FixedKeys \cup OptionalKeys \cup {"quiet", "subtitleslangs"}
            /\ \A k \in FixedKeys : has(k) /\ ydl_opts[k] = ReferenceOptions[k]
            /\ has("quiet") /\ ydl_opts["quiet"] = args.quiet
            /\ has("subtitleslangs") /\ ydl_opts["subtitleslangs"] = args.langs

\* clean_infojson without write_infojson adds nothing; '' counts as not given
C7_Witness ==
    /\ pc = "loop"
    /\ args.clean_infojson
    /\ ~args.write_infojson
    /\ args.output_dir = ""
    /\ args.ffmpeg = "/opt/ffmpeg"
    /\ args.quiet
    /\ DOMAIN ydl_opts = FixedKeys \cup {"quiet", "subtitleslangs", "ffmpeg_location"}

(***************************************************************************)
(* C3: after parse_args every element of args.langs is non-empty and       *)
(* neither starts nor ends with whitespace, the elements are the trimmed   *)
(* non-blank pieces between the commas of the --langs value, in their      *)
(* order, and download_videos puts this list under 'subtitleslangs'.       *)
(* The pieces are described here by positions in the input string.         *)
(***************************************************************************)
\* the positions that delimit the pieces of s: before it, its commas, after it
Delimiters(s) == {0, Len(s) + 1} \cup {i \in 1..Len(s) : s[i] = ","}

\* the positions of the piece that starts after delimiter a
PieceAfter(s, a) ==
    LET b == CHOOSE j \in Delimiters(s) :
                /\ j > a
                /\ \A m \in Delimiters(s) : m > a => j <= m
    IN  (a + 1)..(b - 1)

\* that piece without its leading and trailing whitespace
TrimmedPieceAfter(s, a) ==
    LET inner == {i \in PieceAfter(s, a) : s[i] \notin Whitespace}
        first == CHOOSE i \in inner : \A m \in inner : i <= m
        last == CHOOSE i \in inner : \A m \in inner : i >= m
    IN  IF inner = {} THEN <<>> ELSE SubSeq(s, first, last)

\* the delimiters followed by a piece that is not blank
NonBlankStarts(s) ==
    {a \in Delimiters(s) \ {Len(s) + 1} : TrimmedPieceAfter(s, a) # <<>>}

\* the k-th smallest element of the set S of numbers
Kth(S, k) == CHOOSE x \in S : Cardinality({y \in S : y < x}) = k - 1

C3_LangsAreTrimmedPieces ==
    /\ pc # "main" =>
          LET starts == NonBlankStarts(argv.langs)
              langs == args.langs
          IN  /\ Len(langs) = Cardinality(starts)
              /\ \A k \in 1..Len(langs) :
                    LET lang == langs[k]
                    IN  /\ lang = TrimmedPieceAfter(argv.langs, Kth(starts, k))
                        /\ lang # <<>>
                        /\ lang[1] \notin Whitespace
                        /\ lang[Len(lang)] \notin Whitespace
                        /\ \A i \in 1..Len(lang) : lang[i] # ","
    /\ pc \notin {"main", "parsed"} =>
          /\ "subtitleslangs" \in DOMAIN ydl_opts
          /\ ydl_opts["subtitleslangs"] = args.langs

\* a blank piece is dropped and the others are trimmed, order kept
C3_Witness ==
    /\ pc = "loop"
    /\ argv.langs = <<"n", "\t", ",", ",", "e">>
    /\ args.langs = << <<"n">>, <<"e">> >>
    /\ ydl_opts["subtitleslangs"] = << <<"n">>, <<"e">> >>

(***************************************************************************)
(* C4 as stated: after parse_args, args.cookies is None or a path that was *)
(* an existing file when parse_args looked; a --cookies value that was no  *)
(* existing file has been replaced by None with one warning logged, and a  *)
(* value that was an existing file is kept, with no warning.               *)
(***************************************************************************)
C4_CookiesNoneOrExistingFile ==
    pc # "main" =>
        /\ args.cookies = None \/ isfile(args.cookies, fsAtParse)
        /\ argv.cookies # None /\ ~isfile(argv.cookies, fsAtParse) =>
              /\ args.cookies = None
              /\ Len(LogOf("cookies_ignored")) = 1
        /\ isfile(argv.cookies, fsAtParse) =>
              /\ args.cookies = argv.cookies
              /\ LogOf("cookies_ignored") = <<>>

(***************************************************************************)
(* C5 as stated: whatever the status of the event, a call of progress_hook *)
(* writes at most one progress line to stdout and makes no logging call.   *)
(***************************************************************************)
C5_HookOnlyWritesProgress ==
    hookCalled => Len(written) <= 1 /\ logged = <<>>

(***************************************************************************)
(* C5 amended: a call writes at most one progress line to stdout, and only *)
(* for status 'downloading', where it logs nothing; for status 'finished'  *)
(* or 'post_process' it writes nothing and logs at most one record,        *)
(* 'Processed' with the non-empty file name found under 'filename' or else *)
(* under info_dict['_filename']; for any other status, or none, it writes  *)
(* and logs nothing.                                                       *)
(***************************************************************************)
C5_HookOutputByStatus ==
    hookCalled =>
        LET status == IF d.status.kind = "val" THEN d.status.v ELSE ""
            name == IF d.filename.kind = "val" /\ d.filename.v # ""
                    THEN d.filename.v
                    ELSE IF d.info_dict.kind = "val" /\ d.info_dict.v.kind = "val"
                    THEN d.info_dict.v.v
                    ELSE ""
        IN  /\ Len(written) + Len(logged) <= 1
            /\ written # <<>> => status = "downloading"
            /\ logged # <<>> =>
                  /\ status \in {"finished", "post_process"}
                  /\ logged[1].msg = "Processed"
                  /\ logged[1].level = "INFO"
                  /\ logged[1].filename = name
                  /\ name # ""
            /\ status \in {"finished", "post_process"} /\ hookRaised = "" =>
                  (logged # <<>> <=> name # "")

\* a 'finished' event whose file name is logged
C5_Witness ==
    /\ hookCalled
    /\ d.status = Str("finished")
    /\ d.filename = StrNone
    /\ d.info_dict = Info(Str("b.mp4"))
    /\ Len(logged) = 1
    /\ logged[1].filename = "b.mp4"
    /\ written = <<>>

(***************************************************************************)
(* C8: a call never divides by zero; on a 'downloading' event the total is *)
(* total_bytes when that is a non-zero number and total_bytes_estimate     *)
(* otherwise; when neither is a non-zero number the call writes nothing,   *)
(* raises nothing and returns; a line is written only for a non-zero       *)
(* total.                                                                  *)
(***************************************************************************)
C8_NoDivisionByZero ==
    hookCalled =>
        LET nonzero(x) == x.kind = "val" /\ x.v # 0
            downloading == d.status.kind = "val" /\ d.status.v = "downloading"
        IN  /\ hookRaised # "ZeroDivisionError"
            /\ downloading /\ ~nonzero(d.total_bytes)
                           /\ ~nonzero(d.total_bytes_estimate) =>
                  written = <<>> /\ logged = <<>> /\ hookRaised = ""
            /\ written # <<>> =>
                  /\ written[1].pct_den # 0
                  /\ written[1].pct_den =
                        (IF nonzero(d.total_bytes) THEN d.total_bytes.v
                         ELSE d.total_bytes_estimate.v)
                  /\ nonzero(d.total_bytes) \/ nonzero(d.total_bytes_estimate)

\* a total of 0 with no estimate: nothing is computed, so a None
\* downloaded_bytes or speed cannot raise either
C8_Witness ==
    /\ hookCalled
    /\ d.status = Str("downloading")
    /\ d.total_bytes = Num(0)
    /\ d.total_bytes_estimate = NumAbsent
    /\ d.downloaded_bytes = NumNone
    /\ d.speed = NumNone
    /\ written = <<>>
    /\ hookRaised = ""

=============================================================================
